---------------------------- MODULE Spec2Model ----------------------------
(***************************************************************************)
(* Model of automl/06.auto-ml-sparse-data-custom-cv-split.ipynb: a linear  *)
(* notebook script that loads the 20newsgroups text corpus, hashes it into *)
(* sparse matrices, configures and submits an AutoML run, collects the     *)
(* child runs' metrics, retrieves the best model and evaluates it on the   *)
(* corpus' test subset.                                                    *)
(*                                                                         *)
(* The script's variables are the model's variables; every statement that  *)
(* calls an external library is one action.  The external libraries are    *)
(* modelled by what their documented behaviour does to the script's data:  *)
(* the loader filters, renumbers and shuffles; the split applies one       *)
(* permutation to all its arrays; the hashing vectorizer is a stateless    *)
(* function of its settings and of the text; the training service is       *)
(* opaque and returns arbitrary child runs and an arbitrary fitted model.  *)
(***************************************************************************)
EXTENDS Integers, Sequences, FiniteSets, TLC

(***************************************************************************)
(* Bounds of the model.                                                    *)
(***************************************************************************)
\* documents of the corpus' 'train' subset
NTrainDocs == 4
\* documents of the corpus' 'test' subset
NTestDocs == 3
\* longest list of child runs the service returns
MaxChildren == 2

(***************************************************************************)
(* Values shared by several variables.                                     *)
(***************************************************************************)
\* Python's None, for the variables that later hold a record
NoneVal == [kind |-> "none"]

\* an attribute-less Bunch, before fetch_20newsgroups has returned one
NoBunch == [data |-> <<>>, target |-> <<>>, target_names |-> <<>>,
            filenames |-> <<>>]

Range(s) == {s[i] : i \in DOMAIN s}

\* position of element e in sequence s (list.index)
IndexOf(s, e) == CHOOSE i \in DOMAIN s : s[i] = e

\* arr[idx[1]], arr[idx[2]], ... (numpy / list indexing by an index array)
Take(arr, idx) == [i \in 1..Len(idx) |-> arr[idx[i]]]

(***************************************************************************)
(* The 20newsgroups corpus, reduced: five of the twenty groups, in the     *)
(* alphabetical order the corpus itself numbers them in.                   *)
(***************************************************************************)
AllGroups == <<"alt.atheism", "comp.graphics", "rec.autos", "sci.space",
               "talk.religion.misc">>

\* bodies of postings (word lists); the first is a posting that is empty
\* once headers, footers and quotes are removed
TextPool == << <<>>,
               <<"the", "Space", "shuttle">>,
               <<"God", "is", "god">>,
               <<"a", "image", "file">> >>

SubsetSize(subset) == IF subset = "train" THEN NTrainDocs ELSE NTestDocs

\* posting n of a subset: its file name identifies it
CorpusDoc(subset, n) ==
    LET off == IF subset = "train" THEN 0 ELSE 1
    IN  [filename |-> <<subset, n>>,
         group    |-> AllGroups[((n - 1 + off) % Len(AllGroups)) + 1],
         headers  |-> <<"From", "Subject">>,
         body     |-> TextPool[((n - 1 + 3 * off) % Len(TextPool)) + 1]]

\* the rotations of 1..n: the permutations a seeded shuffle is drawn from
Shuffles(n) ==
    {[i \in 1..n |-> ((i - 1 + r) % n) + 1] : r \in 0..(IF n = 0 THEN 0 ELSE n - 1)}

(***************************************************************************)
(* Script constants.                                                       *)
(***************************************************************************)
remove == {"headers", "footers", "quotes"}

categories == <<"alt.atheism", "talk.religion.misc", "comp.graphics",
                "sci.space">>

\* the evaluation cell assigns both again
remove_test == {"headers", "footers", "quotes"}

categories_test == <<"alt.atheism", "talk.religion.misc", "comp.graphics",
                     "sci.space">>

experiment_name == "automl-local-missing-data"

project_folder == "./sample_projects/automl-local-missing-data"

TrainSubset == "train"

\* variant: the evaluation cell fetches the subset the model was trained on
EvalSubsetTrain == "train"

TestSubset == "test"

\* 2**16
NFeatures == 65536

TrainVectorizer == [stop_words |-> "english", alternate_sign |-> FALSE,
                    n_features |-> NFeatures]

\* variant: the rebuilt vectorizer leaves alternate_sign at its default
TestVectorizerDefaultSign == [stop_words |-> "english", alternate_sign |-> TRUE,
                              n_features |-> NFeatures]

TestVectorizer == [stop_words |-> "english", alternate_sign |-> FALSE,
                   n_features |-> NFeatures]

\* variant: preprocessing switched on
PreprocessOn == TRUE

Preprocess == FALSE

Iterations == 5

MaxTimeSec == 3600

\* test_size = 0.33, in hundredths
TestSizePct == 33


(***************************************************************************)
(* sklearn.datasets.fetch_20newsgroups.                                    *)
(***************************************************************************)
\* numpy.searchsorted(labels, x) for x in labels: x's 0-based rank
SearchSorted(labels, x) == Cardinality({y \in labels : y < x})

\* the corpus' numbers of the requested groups
CategoryLabels(cats) == {IndexOf(AllGroups, c) : c \in Range(cats)}

\* the requested names in the order of their corpus numbers (labels.sort())
SortedCategories(cats) ==
    LET labels == CategoryLabels(cats)
    IN  [k \in 1..Cardinality(labels) |->
            AllGroups[CHOOSE x \in labels : SearchSorted(labels, x) = k - 1]]

\* the text of a posting once the parts named in rm are stripped
StripText(doc, rm) ==
    IF "headers" \in rm THEN doc.body ELSE doc.headers \o doc.body

\* the Bunch the loader returns for a subset, shuffled by perm (a permutation
\* of the postings kept): postings of the requested groups only, targets
\* renumbered 0.. by the sorted order of the requested groups
FetchNewsgroups(subset, cats, rm, perm) ==
    LET all    == [n \in 1..SubsetSize(subset) |-> CorpusDoc(subset, n)]
        Wanted(d) == d.group \in Range(cats)
        kept   == SelectSeq(all, Wanted)
        labels == CategoryLabels(cats)
    IN  [data         |-> [i \in 1..Len(kept) |-> StripText(kept[perm[i]], rm)],
         target       |-> [i \in 1..Len(kept) |->
                             SearchSorted(labels,
                                 IndexOf(AllGroups, kept[perm[i]].group))],
         filenames    |-> [i \in 1..Len(kept) |-> kept[perm[i]].filename],
         target_names |-> SortedCategories(cats)]

\* how many postings of a subset the loader keeps
KeptCount(subset, cats) ==
    Cardinality({n \in 1..SubsetSize(subset) :
                    CorpusDoc(subset, n).group \in Range(cats)})

(***************************************************************************)
(* sklearn.model_selection.train_test_split.                               *)
(***************************************************************************)
\* ceil(test_size * n)
NTest(n) == (TestSizePct * n + 99) \div 100

\* the split raises ValueError when either side would be empty
SplitFails(n) == n = 0 \/ n - NTest(n) = 0

\* the test rows are the first n_test entries of the permutation, the train
\* rows the rest; the same index arrays are applied to every array passed
SplitIndices(n, perm) ==
    [train |-> SubSeq(perm, NTest(n) + 1, n), test |-> SubSeq(perm, 1, NTest(n))]

(***************************************************************************)
(* sklearn.feature_extraction.text.HashingVectorizer.                      *)
(***************************************************************************)
\* str.lower
Lower(w) ==
    CASE w = "God"   -> "god"
      [] w = "Space" -> "space"
      [] OTHER       -> w

\* words the token pattern \w\w+ rejects (a single character)
ShortWords == {"a"}

\* the words of sklearn's English stop list that occur in the corpus
EnglishStopWords == {"the", "is"}

\* murmurhash3_32(token, seed=0) as a signed 32-bit integer
Murmur(t) ==
    CASE t = "god"     -> 1802587701
      [] t = "space"   -> -2031641008
      [] t = "image"   -> -926707180
      [] t = "shuttle" -> 589253845
      [] t = "file"    -> 437367475
      [] t = "the"     -> -1132748958
      [] t = "is"      -> 2021799277
      [] t = "a"       -> 1009084850
      [] OTHER         -> 0

Abs(x) == IF x < 0 THEN -x ELSE x

\* lowercase, tokenize, drop stop words
Analyze(v, text) ==
    LET lowered == [i \in 1..Len(text) |-> Lower(text[i])]
        Keep(w) == /\ w \notin ShortWords
                   /\ ~(v.stop_words = "english" /\ w \in EnglishStopWords)
    IN  SelectSeq(lowered, Keep)

\* column of a token
Col(v, t) == Abs(Murmur(t)) % v.n_features

\* contribution of one occurrence of a token
Sign(v, t) == IF v.alternate_sign /\ Murmur(t) < 0 THEN -1 ELSE 1

RECURSIVE SumSquares(_)
SumSquares(entries) ==
    IF entries = {} THEN 0
    ELSE LET e == CHOOSE e \in entries : TRUE
         IN  e[2] * e[2] + SumSquares(entries \ {e})

\* one row of the matrix: the non-zero (column, count) entries and the sum of
\* their squares, by whose root the l2 norm divides each stored value
Row(v, text) ==
    LET toks == Analyze(v, text)
        cols == {Col(v, toks[p]) : p \in DOMAIN toks}
        Val(c) == Cardinality({p \in DOMAIN toks :
                                  Col(v, toks[p]) = c /\ Sign(v, toks[p]) = 1})
                  - Cardinality({p \in DOMAIN toks :
                                  Col(v, toks[p]) = c /\ Sign(v, toks[p]) = -1})
        entries == {<<c, Val(c)>> : c \in {c \in cols : Val(c) # 0}}
    IN  [entries |-> entries, normsq |-> SumSquares(entries)]

\* variant: a transform that leaves out the documents without any token
TransformDropEmpty(v, docs) ==
    LET HasToken(t) == Analyze(v, t) # <<>>
        kept == SelectSeq(docs, HasToken)
    IN  [kind |-> "sparse", rows |-> [i \in 1..Len(kept) |-> Row(v, kept[i])],
         ncols |-> v.n_features]

\* vectorizer.transform(docs): one row per document, in the documents' order
Transform(v, docs) ==
    [kind |-> "sparse", rows |-> [i \in 1..Len(docs) |-> Row(v, docs[i])],
     ncols |-> v.n_features]


(***************************************************************************)
(* The training service, opaque: the child runs it may report and the      *)
(* models it may return.                                                   *)
(***************************************************************************)
\* values of the 'iteration' property (strings, as the service stores them)
IterationProps == {"0", "1"}

\* int(s)
IntOf(s) ==
    CASE s = "0" -> 0
      [] s = "1" -> 1
      [] OTHER   -> 2

\* metric dictionaries a child run may have logged: name -> typed value
MetricsPool ==
    { [AUC_weighted |-> [type |-> "float", val |-> 90]],
      [AUC_weighted |-> [type |-> "float", val |-> 50],
       confusion_matrix |-> [type |-> "str", val |-> 0]] }

ChildRuns ==
    {[properties |-> [iteration |-> it], metrics |-> m] :
        it \in IterationProps, m \in MetricsPool}

\* what get_children may yield
ChildLists == UNION {[1..n -> ChildRuns] : n \in 0..MaxChildren}

NClasses == Len(categories)

\* the fitted pipelines get_output may return
Models ==
    {[kind |-> "const", class |-> k] : k \in 0..(NClasses - 1)}
        \cup {[kind |-> "bycols", class |-> 0]}

\* the class a fitted pipeline assigns to one row
PredictRow(m, row) ==
    IF m.kind = "const" THEN m.class ELSE Cardinality(row.entries) % NClasses

\* fitted_model.predict(X)
PredictAll(m, X) == [i \in 1..Len(X.rows) |-> PredictRow(m, X.rows[i])]

\* the errors a call may raise
Errors(step) ==
    IF step \in {"from_config", "Experiment", "submit", "RunDetails",
                 "get_children", "get_metrics", "get_output", "register_model"}
    THEN {"ServiceException", "ConnectionError"}
    ELSE IF step \in {"fetch_train", "fetch_test"}
    THEN {"URLError"}
    ELSE {"ValueError"}

(***************************************************************************)
(* The script's state.                                                     *)
(***************************************************************************)
VARIABLES
    pc,             \* the statement the script executes next
    calls,          \* history: the library calls made so far, with outcome
    raised,         \* the exception that ended the script, or "none"
    ws, experiment,
    data_train, X_train, X_validation, y_train, y_validation,
    src_train, src_valid,   \* history: the postings behind the split's rows
    vectorizer,
    automl_config,
    run_status,     \* the service's state of the submitted run
    submitted,      \* the configuration the service received
    local_run,
    children, metricslist,
    child_i,        \* position of the for loop over children
    best_run, fitted_model, model_id,
    data_test, X_test, y_test, ypred, ypred_strings, ytest_strings, cm

vars == <<pc, calls, raised, ws, experiment, data_train, X_train,
          X_validation, y_train, y_validation, src_train, src_valid,
          vectorizer, automl_config, run_status, submitted, local_run,
          children, metricslist, child_i, best_run, fitted_model, model_id,
          data_test, X_test, y_test, ypred, ypred_strings, ytest_strings, cm>>

setupVars == <<ws, experiment>>

trainVars == <<data_train, X_train, X_validation, y_train, y_validation,
               src_train, src_valid>>

runVars == <<run_status, submitted, local_run>>

childVars == <<children, metricslist, child_i>>

modelVars == <<best_run, fitted_model, model_id>>

testVars == <<data_test, X_test, y_test, ypred, ypred_strings,
              ytest_strings, cm>>

Init ==
    /\ pc = "from_config"
    /\ calls = <<>>
    /\ raised = "none"
    /\ ws = "None"
    /\ experiment = NoneVal
    /\ data_train = NoBunch
    /\ X_train = NoneVal
    /\ X_validation = NoneVal
    /\ y_train = <<>>
    /\ y_validation = <<>>
    /\ src_train = <<>>
    /\ src_valid = <<>>
    /\ vectorizer = NoneVal
    /\ automl_config = NoneVal
    /\ run_status = "NotStarted"
    /\ submitted = NoneVal
    /\ local_run = "None"
    /\ children = <<>>
    /\ metricslist = <<>>
    /\ child_i = 0
    /\ best_run = "None"
    /\ fitted_model = NoneVal
    /\ model_id = "None"
    /\ data_test = NoBunch
    /\ X_test = NoneVal
    /\ y_test = <<>>
    /\ ypred = <<>>
    /\ ypred_strings = <<>>
    /\ ytest_strings = <<>>
    /\ cm = <<>>

\* a call returned normally
Returned(step) == Append(calls, [step |-> step, ok |-> TRUE, error |-> "none"])

\* the statement at from, done: the script moves on to the statement at to
Advance(step, to) ==
    /\ pc' = to
    /\ calls' = Returned(step)
    /\ raised' = raised

(***************************************************************************)
(* Cell "Create Experiment" and cell "Diagnostics".                        *)
(***************************************************************************)
FromConfig ==
    /\ pc = "from_config"
    /\ ws' = "ws"
    /\ Advance("from_config", "Experiment")
    /\ UNCHANGED <<experiment, trainVars, vectorizer, automl_config, runVars,
                   childVars, modelVars, testVars>>

CreateExperiment ==
    /\ pc = "Experiment"
    /\ experiment' = [kind |-> "experiment", workspace |-> ws,
                      name |-> experiment_name]
    /\ Advance("Experiment", "set_diagnostics")
    /\ UNCHANGED <<ws, trainVars, vectorizer, automl_config, runVars,
                   childVars, modelVars, testVars>>

SetDiagnostics ==
    /\ pc = "set_diagnostics"
    /\ Advance("set_diagnostics", "fetch_train")
    /\ UNCHANGED <<setupVars, trainVars, vectorizer, automl_config, runVars,
                   childVars, modelVars, testVars>>

(***************************************************************************)
(* Cell "Creating Sparse Data".                                            *)
(***************************************************************************)
FetchTrain ==
    /\ pc = "fetch_train"
    /\ \E perm \in Shuffles(KeptCount(TrainSubset, categories)) :
          data_train' = FetchNewsgroups(TrainSubset, categories, remove, perm)
    /\ Advance("fetch_train", "train_test_split")
    /\ UNCHANGED <<setupVars, X_train, X_validation, y_train, y_validation,
                   src_train, src_valid, vectorizer, automl_config, runVars,
                   childVars, modelVars, testVars>>

TrainTestSplit ==
    /\ pc = "train_test_split"
    /\ LET n == Len(data_train.data)
       IN  /\ ~SplitFails(n)
           /\ \E perm \in Shuffles(n) :
                 LET idx == SplitIndices(n, perm)
                 IN  /\ X_train' = [kind |-> "text",
                                    rows |-> Take(data_train.data, idx.train)]
                     /\ X_validation' = [kind |-> "text",
                                         rows |-> Take(data_train.data, idx.test)]
                     /\ y_train' = Take(data_train.target, idx.train)
                     /\ y_validation' = Take(data_train.target, idx.test)
                     /\ src_train' = Take(data_train.filenames, idx.train)
                     /\ src_valid' = Take(data_train.filenames, idx.test)
    /\ Advance("train_test_split", "transform_train")
    /\ UNCHANGED <<setupVars, data_train, vectorizer, automl_config, runVars,
                   childVars, modelVars, testVars>>

TransformTrain ==
    /\ pc = "transform_train"
    /\ vectorizer' = TrainVectorizer
    /\ X_train' = Transform(vectorizer', X_train.rows)
    /\ Advance("transform_train", "transform_valid")
    /\ UNCHANGED <<setupVars, data_train, X_validation, y_train, y_validation,
                   src_train, src_valid, automl_config, runVars, childVars,
                   modelVars, testVars>>

TransformValid ==
    /\ pc = "transform_valid"
    /\ X_validation' = Transform(vectorizer, X_validation.rows)
    /\ Advance("transform_valid", "AutoMLConfig")
    /\ UNCHANGED <<setupVars, data_train, X_train, y_train, y_validation,
                   src_train, src_valid, vectorizer, automl_config, runVars,
                   childVars, modelVars, testVars>>

(***************************************************************************)
(* Cell "Instantiate Auto ML Config".                                      *)
(***************************************************************************)
AutoMLConfig(X, y, X_valid, y_valid) ==
    [kind |-> "AutoMLConfig", task |-> "classification",
     debug_log |-> "automl_errors.log", primary_metric |-> "AUC_weighted",
     max_time_sec |-> MaxTimeSec, iterations |-> Iterations,
     preprocess |-> Preprocess, verbosity |-> "INFO",
     X |-> X, y |-> y, X_valid |-> X_valid, y_valid |-> y_valid,
     path |-> project_folder]

BuildConfig ==
    /\ pc = "AutoMLConfig"
    /\ automl_config' = AutoMLConfig(X_train, y_train, X_validation, y_validation)
    /\ Advance("AutoMLConfig", "submit")
    /\ UNCHANGED <<setupVars, trainVars, vectorizer, runVars, childVars,
                   modelVars, testVars>>

(***************************************************************************)
(* Cell "Training the Model": experiment.submit(automl_config,             *)
(* show_output=True).  The call hands the configuration to the service,    *)
(* the service executes the run, and the call returns the run.             *)
(***************************************************************************)
SubmitStart ==
    /\ pc = "submit"
    /\ run_status' = "Running"
    /\ submitted' = automl_config
    /\ pc' = "submit_wait"
    /\ UNCHANGED <<calls, raised, setupVars, trainVars, vectorizer,
                   automl_config, local_run, childVars, modelVars, testVars>>

\* the service finishes the run
ServiceComplete ==
    /\ pc = "submit_wait"
    /\ run_status = "Running"
    /\ run_status' = "Completed"
    /\ UNCHANGED <<pc, calls, raised, setupVars, trainVars, vectorizer,
                   automl_config, submitted, local_run, childVars, modelVars,
                   testVars>>

\* variant: submit returns the run handle without waiting for the run
SubmitReturnsAtOnce == run_status \in {"Running", "Completed"}

\* a local run is synchronous: the call returns once the run has finished
SubmitMayReturn == run_status = "Completed"

SubmitReturn ==
    /\ pc = "submit_wait"
    /\ SubmitMayReturn
    /\ local_run' = "run"
    /\ Advance("submit", "RunDetails")
    /\ UNCHANGED <<setupVars, trainVars, vectorizer, automl_config, run_status,
                   submitted, childVars, modelVars, testVars>>

(***************************************************************************)
(* Cells "Widget for monitoring runs" and "Retrieve All Child Runs".       *)
(***************************************************************************)
RunDetailsShow ==
    /\ pc = "RunDetails"
    /\ Advance("RunDetails", "get_children")
    /\ UNCHANGED <<setupVars, trainVars, vectorizer, automl_config, runVars,
                   childVars, modelVars, testVars>>

GetChildren ==
    /\ pc = "get_children"
    /\ \E list \in ChildLists : children' = list
    /\ metricslist' = <<>>
    /\ child_i' = 1
    /\ Advance("get_children", "loop")
    /\ UNCHANGED <<setupVars, trainVars, vectorizer, automl_config, runVars,
                   modelVars, testVars>>

\* {k: v for k, v in metrics.items() if isinstance(v, float)}
FloatMetrics(m) == [k \in {k \in DOMAIN m : m[k].type = "float"} |-> m[k]]

\* d[k] = v
Put(d, k, v) == [j \in (DOMAIN d) \cup {k} |-> IF j = k THEN v ELSE d[j]]

\* one pass of the for loop's body
LoopBody ==
    /\ pc = "loop"
    /\ child_i <= Len(children)
    /\ LET run        == children[child_i]
           properties == run.properties
           metrics    == FloatMetrics(run.metrics)
       IN  metricslist' = Put(metricslist, IntOf(properties.iteration), metrics)
    /\ child_i' = child_i + 1
    /\ Advance("get_metrics", "loop")
    /\ UNCHANGED <<setupVars, trainVars, vectorizer, automl_config, runVars,
                   children, modelVars, testVars>>

\* the loop is over; rundata is built for display
RunData ==
    /\ pc = "loop"
    /\ child_i > Len(children)
    /\ pc' = "get_output"
    /\ UNCHANGED <<calls, raised, setupVars, trainVars, vectorizer,
                   automl_config, runVars, childVars, modelVars, testVars>>

(***************************************************************************)
(* Cells "Retrieve the Best Model" and "Register fitted model".            *)
(***************************************************************************)
\* variant: the get_output cell executed ahead of the submit cell
GetOutputAnytime ==
    /\ pc \in {"submit", "get_output"}
    /\ best_run' = "best_run"
    /\ \E m \in Models : fitted_model' = m
    /\ Advance("get_output", "register_model")
    /\ UNCHANGED <<setupVars, trainVars, vectorizer, automl_config, runVars,
                   childVars, model_id, testVars>>

GetOutput ==
    /\ pc = "get_output"
    /\ local_run # "None"
    /\ best_run' = "best_run"
    /\ \E m \in Models : fitted_model' = m
    /\ Advance("get_output", "register_model")
    /\ UNCHANGED <<setupVars, trainVars, vectorizer, automl_config, runVars,
                   childVars, model_id, testVars>>

RegisterModel ==
    /\ pc = "register_model"
    /\ model_id' = "model_id"
    /\ Advance("register_model", "fetch_test")
    /\ UNCHANGED <<setupVars, trainVars, vectorizer, automl_config, runVars,
                   childVars, best_run, fitted_model, testVars>>

(***************************************************************************)
(* Cell "Testing the Fitted Model".                                        *)
(***************************************************************************)
FetchTest ==
    /\ pc = "fetch_test"
    /\ \E perm \in Shuffles(KeptCount(TestSubset, categories_test)) :
          data_test' = FetchNewsgroups(TestSubset, categories_test, remove_test,
                                       perm)
    /\ Advance("fetch_test", "transform_test")
    /\ UNCHANGED <<setupVars, trainVars, vectorizer, automl_config, runVars,
                   childVars, modelVars, X_test, y_test, ypred, ypred_strings,
                   ytest_strings, cm>>

\* variant: the evaluation cell assigns the test matrix to X_train
TransformTestIntoTrain ==
    /\ pc = "transform_test"
    /\ vectorizer' = TestVectorizer
    /\ X_train' = Transform(vectorizer', data_test.data)
    /\ X_test' = X_train'
    /\ y_test' = data_test.target
    /\ Advance("transform_test", "predict")
    /\ UNCHANGED <<setupVars, data_train, X_validation, y_train, y_validation,
                   src_train, src_valid, automl_config, runVars, childVars,
                   modelVars, data_test, ypred, ypred_strings, ytest_strings,
                   cm>>

TransformTest ==
    /\ pc = "transform_test"
    /\ vectorizer' = TestVectorizer
    /\ X_test' = Transform(vectorizer', data_test.data)
    /\ y_test' = data_test.target
    /\ Advance("transform_test", "predict")
    /\ UNCHANGED <<setupVars, trainVars, automl_config, runVars, childVars,
                   modelVars, data_test, ypred, ypred_strings, ytest_strings,
                   cm>>

Predict ==
    /\ pc = "predict"
    /\ fitted_model # NoneVal
    /\ ypred' = PredictAll(fitted_model, X_test)
    /\ Advance("predict", "label_strings")
    /\ UNCHANGED <<setupVars, trainVars, vectorizer, automl_config, runVars,
                   childVars, modelVars, data_test, X_test, y_test,
                   ypred_strings, ytest_strings, cm>>

\* [categories[i] for i in labels], Python's lists being 0-based
LabelNames(cats, labels) == [k \in 1..Len(labels) |-> cats[labels[k] + 1]]

LabelStrings ==
    /\ pc = "label_strings"
    /\ ypred_strings' = LabelNames(categories_test, ypred)
    /\ ytest_strings' = LabelNames(categories_test, y_test)
    /\ pc' = "ConfusionMatrix"
    /\ UNCHANGED <<calls, raised, setupVars, trainVars, vectorizer,
                   automl_config, runVars, childVars, modelVars, data_test,
                   X_test, y_test, ypred, cm>>

\* pandas_ml.ConfusionMatrix(y_true, y_pred): the count of every
\* (true, predicted) pair that occurs
ConfusionMatrix(y_true, y_pred) ==
    LET pairs == {<<y_true[i], y_pred[i]>> : i \in DOMAIN y_true}
    IN  [p \in pairs |->
            Cardinality({i \in DOMAIN y_true : <<y_true[i], y_pred[i]>> = p})]

Confusion ==
    /\ pc = "ConfusionMatrix"
    /\ cm' = ConfusionMatrix(ytest_strings, ypred_strings)
    /\ Advance("ConfusionMatrix", "done")
    /\ UNCHANGED <<setupVars, trainVars, vectorizer, automl_config, runVars,
                   childVars, modelVars, data_test, X_test, y_test, ypred,
                   ypred_strings, ytest_strings>>

(***************************************************************************)
(* Exceptions.  The script has no try statement: an exception raised by a  *)
(* call ends the script with that exception.                               *)
(***************************************************************************)
\* the library call the statement at position p makes, "" when it makes none
CallAt(p) ==
    CASE p = "submit_wait" -> "submit"
      [] p = "loop"        -> IF child_i <= Len(children) THEN "get_metrics" ELSE ""
      [] p \in {"label_strings", "done", "failed"} -> ""
      [] OTHER             -> p

\* variant: the exception is caught and the statement is executed again
RaiseAndRetry(step, e) ==
    /\ pc' = pc
    /\ raised' = e
    /\ calls' = Append(calls, [step |-> step, ok |-> FALSE, error |-> e])

\* the call step raises e: nothing catches it
Raise(step, e) ==
    /\ pc' = "failed"
    /\ raised' = e
    /\ calls' = Append(calls, [step |-> step, ok |-> FALSE, error |-> e])

Fail ==
    /\ CallAt(pc) # ""
    /\ \E e \in Errors(CallAt(pc)) : Raise(CallAt(pc), e)
    /\ UNCHANGED <<setupVars, trainVars, vectorizer, automl_config, runVars,
                   childVars, modelVars, testVars>>

Next ==
    \/ FromConfig
    \/ CreateExperiment
    \/ SetDiagnostics
    \/ FetchTrain
    \/ TrainTestSplit
    \/ TransformTrain
    \/ TransformValid
    \/ BuildConfig
    \/ SubmitStart
    \/ ServiceComplete
    \/ SubmitReturn
    \/ RunDetailsShow
    \/ GetChildren
    \/ LoopBody
    \/ RunData
    \/ GetOutput
    \/ RegisterModel
    \/ FetchTest
    \/ TransformTest
    \/ Predict
    \/ LabelStrings
    \/ Confusion
    \/ Fail

Spec == Init /\ [][Next]_vars

(***************************************************************************)
(* Properties.                                                             *)
(***************************************************************************)
Last(s) == s[Len(s)]

IsPrefix(s, t) == Len(s) <= Len(t) /\ \A i \in 1..Len(s) : s[i] = t[i]

\* the library calls of the script, top to bottom (the loop body's apart)
ScriptOrder ==
    <<"from_config", "Experiment", "set_diagnostics", "fetch_train",
      "train_test_split", "transform_train", "transform_valid",
      "AutoMLConfig", "submit", "RunDetails", "get_children", "get_output",
      "register_model", "fetch_test", "transform_test", "predict",
      "ConfusionMatrix">>

NotLoopCall(c) == c.step # "get_metrics"

\* the calls made so far, the loop body's left out
CallsMade == [i \in 1..Len(SelectSeq(calls, NotLoopCall)) |->
                 SelectSeq(calls, NotLoopCall)[i].step]

ReturnedOk(step) == \E i \in DOMAIN calls : calls[i].step = step /\ calls[i].ok

Invoked(step) == \E i \in DOMAIN calls : calls[i].step = step

\* the posting a file name denotes, as the script's loader call delivers it
BodyOf(f) == StripText(CorpusDoc(f[1], f[2]), remove)

TargetOf(f) ==
    SearchSorted(CategoryLabels(categories),
                 IndexOf(AllGroups, CorpusDoc(f[1], f[2]).group))

\* C1: the steps of the script happen in one fixed order, each at most once
\* and each only after the previous one has returned; get_output is never
\* invoked before submit has returned a run, nor predict before get_output
\* has returned a fitted model.
C1_FixedOrder ==
    /\ IsPrefix(CallsMade, ScriptOrder)
    /\ \A i \in DOMAIN calls :
          calls[i].step = "get_metrics" =>
              /\ \E j \in 1..(i - 1) : calls[j].step = "get_children" /\ calls[j].ok
              /\ \A j \in 1..(i - 1) : calls[j].step # "get_output"
    /\ Invoked("get_output") => ReturnedOk("submit") /\ local_run = "run"
    /\ Invoked("predict") => ReturnedOk("get_output") /\ fitted_model \in Models

C1_Witness ==
    /\ pc = "done"
    /\ CallsMade = ScriptOrder
    /\ Invoked("get_metrics")

\* C2: no step after submit is in progress or finished while the submitted
\* run is not completed.
LaterPositions ==
    {"RunDetails", "get_children", "loop", "get_output", "register_model",
     "fetch_test", "transform_test", "predict", "label_strings",
     "ConfusionMatrix", "done"}

LaterCalls ==
    {"RunDetails", "get_children", "get_metrics", "get_output",
     "register_model", "fetch_test", "transform_test", "predict",
     "ConfusionMatrix"}

C3_NoRecoveryState ==
    /\ \A i \in DOMAIN calls : ~calls[i].ok => i = Len(calls)
    /\ (raised # "none") <=> (calls # <<>> /\ ~Last(calls).ok)
    /\ (raised # "none") => raised = Last(calls).error /\ pc = "failed"
    /\ (pc = "failed") => raised # "none"

C3_FailurePropagates == []C3_NoRecoveryState /\ [][pc # "failed"]_vars

C3_Witness ==
    /\ pc = "failed"
    /\ Last(calls).step = "get_metrics"
    /\ raised = "ConnectionError"
    /\ child_i = 2
    /\ DOMAIN metricslist # {}
    /\ fitted_model = NoneVal

\* C4: the features and labels of the configuration record are row-aligned:
\* as many rows as labels, and row i is the vectorization of the posting
\* whose label is element i.
Aligned(X, y, src) ==
    /\ Len(X.rows) = Len(y)
    /\ Len(src) = Len(y)
    /\ \A i \in 1..Len(y) :
          /\ i \in DOMAIN X.rows
          /\ X.rows[i] = Row(TrainVectorizer, BodyOf(src[i]))
          /\ y[i] = TargetOf(src[i])

ConfigAligned(c) ==
    c # NoneVal => /\ Aligned(c.X, c.y, src_train)
                   /\ Aligned(c.X_valid, c.y_valid, src_valid)

C4_RowAligned == ConfigAligned(automl_config) /\ ConfigAligned(submitted)

C4_Witness ==
    /\ submitted # NoneVal
    /\ Len(submitted.y) >= 2
    /\ \E i, j \in DOMAIN submitted.y :
          /\ submitted.y[i] # submitted.y[j]
          /\ submitted.X.rows[i] # submitted.X.rows[j]
    /\ Len(submitted.y_valid) >= 1

\* C5: every posting the model is evaluated on comes from the 'test' subset,
\* every posting given to the training service from the 'train' subset, and
\* no posting is in both.
C5_HeldOut ==
    /\ submitted # NoneVal =>
          \A f \in Range(src_train) \cup Range(src_valid) : f[1] = "train"
    /\ ypred # <<>> =>
          /\ Len(ypred) = Len(data_test.filenames)
          /\ Len(X_test.rows) = Len(data_test.filenames)
          /\ \A i \in DOMAIN data_test.filenames :
                /\ data_test.filenames[i][1] = "test"
                /\ X_test.rows[i] = Row(vectorizer, BodyOf(data_test.filenames[i]))
          /\ Range(data_test.filenames)
                 \cap (Range(src_train) \cup Range(src_valid)) = {}

C5_Witness ==
    /\ pc = "done"
    /\ Len(ypred) >= 2
    /\ Len(src_train) >= 2
    /\ \E i \in DOMAIN X_test.rows : \E j \in DOMAIN X_train.rows :
          X_test.rows[i] = X_train.rows[j]

\* C6: once produced by the vectorizer, X_train and X_validation are never
\* changed, the label vectors are never changed once the split has returned
\* them, and the configuration record built and submitted refers to exactly
\* these four values.
C6_ConfigRefs ==
    /\ automl_config # NoneVal =>
          /\ automl_config.X = X_train
          /\ automl_config.X_valid = X_validation
          /\ automl_config.y = y_train
          /\ automl_config.y_valid = y_validation
          /\ X_train.kind = "sparse"
          /\ X_validation.kind = "sparse"
    /\ submitted # NoneVal => submitted = automl_config

C6_Frame ==
    /\ X_train.kind = "sparse" => X_train' = X_train
    /\ X_validation.kind = "sparse" => X_validation' = X_validation
    /\ X_train # NoneVal => y_train' = y_train /\ y_validation' = y_validation

C6_Unmodified == []C6_ConfigRefs /\ [][C6_Frame]_vars

C6_Witness ==
    /\ pc = "done"
    /\ X_test.kind = "sparse"
    /\ submitted.X = X_train
    /\ Len(X_train.rows) >= 2

\* C7: the record passed to submit has preprocess = False together with the
\* sparse X and X_valid, and the flag is the one the record was built with.
C7_NoPreprocessOnSparse ==
    /\ automl_config # NoneVal =>
          /\ automl_config.preprocess = FALSE
          /\ automl_config.X.kind = "sparse"
          /\ automl_config.X_valid.kind = "sparse"
    /\ submitted # NoneVal =>
          /\ submitted.preprocess = FALSE
          /\ submitted.X.kind = "sparse"
          /\ submitted.X_valid.kind = "sparse"
          /\ submitted.preprocess = automl_config.preprocess

C7_Witness ==
    /\ run_status = "Running"
    /\ submitted.X.kind = "sparse"
    /\ \E i \in DOMAIN submitted.X.rows : submitted.X.rows[i].entries # {}

\* C8: after the loop over the child runs, every child run has an entry in
\* metricslist under its iteration number, holding exactly that run's
\* float-valued metrics.
HoldsFloatMetricsOf(d, run) ==
    /\ DOMAIN d = {k \in DOMAIN run.metrics : run.metrics[k].type = "float"}
    /\ \A k \in DOMAIN d : d[k] = run.metrics[k]

C8_EveryChildShown ==
    (pc = "get_output") =>
        \A i \in DOMAIN children :
            /\ IntOf(children[i].properties.iteration) \in DOMAIN metricslist
            /\ HoldsFloatMetricsOf(
                   metricslist[IntOf(children[i].properties.iteration)],
                   children[i])

\* C9: the class name attached to a label index in the evaluation step is the
\* name the loader associates with that target value, for true and predicted
\* labels alike, and two names are equal exactly when the indices are.
C9_NamesMatchLoader ==
    (pc \in {"ConfusionMatrix", "done"}) =>
        /\ \A k \in DOMAIN y_test :
              /\ y_test[k] + 1 \in DOMAIN categories_test
              /\ ytest_strings[k] = data_test.target_names[y_test[k] + 1]
        /\ \A k \in DOMAIN ypred :
              /\ ypred[k] + 1 \in DOMAIN categories_test
              /\ ypred_strings[k] = data_test.target_names[ypred[k] + 1]
        /\ \A k \in DOMAIN y_test :
              (ytest_strings[k] = ypred_strings[k]) <=> (y_test[k] = ypred[k])

\* C10: the vectorizer rebuilt in the evaluation step spans the feature space
\* of the training matrices: X_test has the 65536 columns of X_train and
\* X_validation, and the rebuilt vectorizer maps every training and validation
\* posting to the row the model was fitted on.
C10_SameFeatureSpace ==
    (X_test.kind = "sparse") =>
        /\ X_test.ncols = NFeatures
        /\ X_train.ncols = X_test.ncols
        /\ X_validation.ncols = X_test.ncols
        /\ \A i \in DOMAIN src_train :
              Row(vectorizer, BodyOf(src_train[i])) = X_train.rows[i]
        /\ \A i \in DOMAIN src_valid :
              Row(vectorizer, BodyOf(src_valid[i])) = X_validation.rows[i]
        /\ \A i \in DOMAIN data_test.data :
              X_test.rows[i] = Row(TrainVectorizer, data_test.data[i])

C10_Witness ==
    /\ pc = "done"
    /\ X_test.kind = "sparse"
    /\ \E i \in DOMAIN X_train.rows : Cardinality(X_train.rows[i].entries) >= 2
    /\ \E i \in DOMAIN X_test.rows : Cardinality(X_test.rows[i].entries) >= 2

=============================================================================
